---- MODULE Spec2Model ----
(***************************************************************************)
(* Pose-to-garment fitting pipeline of the virtual try-on:                 *)
(*   PoseDetection (modules/poseDetection.js), ModelLoader and ClothingFit *)
(*   (modelLoader.js / clothingFit.js) and the EnhancedVirtualTryOn app    *)
(*   (bundle.js).                                                          *)
(*                                                                         *)
(* Numbers.  Lengths and coordinates are integers in centimetres (the      *)
(* source uses metres as floats), scale factors and fit scores are         *)
(* integers in thousandths, the smoothing factor is in hundredths.         *)
(* Quotients are floored.  The two non-finite JavaScript numbers that a    *)
(* division can produce are kept as the values NaN and Infinity.           *)
(***************************************************************************)
EXTENDS Integers, Sequences, FiniteSets, TLC

VARIABLES
  app,            \* EnhancedVirtualTryOn instance: its application state
  PoseDetection,  \* PoseDetection singleton
  ModelLoader,    \* ModelLoader singleton
  ClothingFit,    \* ClothingFit singleton
  SceneManager,   \* SceneManager singleton: the children of its scene
  objects,        \* the THREE model objects by uuid: position, quaternion, scale
  timers,         \* calibration attempts: the interval and timeout of each calibrate()
  oracle,         \* the environment: the latest pose result the landmark oracle
                  \* delivered, and how many results, calls and user events so far
  loads,          \* model loads in flight (GLTFLoader requests not yet answered)
  Customization,  \* Customization singleton: its currentSettings
  appearance,     \* the model objects by uuid: the color, map and opacity of their
                  \* materials and their userData.sizeAdjustment
  last            \* the handler that ran last, with its arguments and result

vars == <<app, PoseDetection, ModelLoader, ClothingFit, SceneManager, objects, timers,
          oracle, loads, Customization, appearance, last>>

-----------------------------------------------------------------------------
(* Bounds of the model *)

\* calibrate() requests over a run
MaxAttempts == 1
\* direct calls of the pose handler and of the ClothingFit methods over a run
MaxCalls == 2
\* pose results the oracle delivers over a run
MaxResults == 2
\* model loads in flight at one time
MaxLoads == 1
\* customization clicks and inputs, resizes, screenshots and rendered frames
\* over a run
MaxEvents == 1
\* changes of the garment (product try-on, change-model button) over a run
MaxChanges == 1

-----------------------------------------------------------------------------
(* Program constants *)

\* setInterval(..., 500)
PollIntervalMs == 500
\* setTimeout(..., 10000)
CalibrationTimeoutMs == 10000
\* keypoints.length < 33
NumLandmarks == 33
\* this.smoothingFactor = 0.8, in hundredths
DefaultSmoothingFactor == 80
\* armThreshold = 0.3, in hundredths
ArmThreshold == 30

\* one in thousandths: the unit of scales, ratios and scores
Unit == 10^3

-----------------------------------------------------------------------------
(* JavaScript numbers *)

\* the values standing for the three non-finite numbers, out of the range of
\* every finite value of the model
Infinity == 2^30
NaN == 2^30 + 1

IsFinite(v) == v # NaN /\ v # Infinity /\ v # -Infinity

\* Math.max(lo, Math.min(hi, v))
Clamp(lo, v, hi) == IF v < lo THEN lo ELSE IF v > hi THEN hi ELSE v

Abs(v) == IF v < 0 THEN -v ELSE v

\* a / b for a finite a >= 0 and a divisor b that may be undefined, zero or
\* non-finite; the quotient is in thousandths
JsDiv(a, b) ==
  IF a = NaN \/ b = NaN THEN NaN
  ELSE IF b = 0 THEN (IF a = 0 THEN NaN ELSE IF a > 0 THEN Infinity ELSE -Infinity)
  ELSE IF ~IsFinite(a) THEN a
  ELSE IF ~IsFinite(b) THEN 0
  ELSE (a * Unit) \div b

\* a * k / d for a factor k/d > 0 (1.1 is 11/10, sizeAdjustment is size/1000)
JsScale(a, k, d) == IF IsFinite(a) THEN (a * k) \div d ELSE a

\* a + b
JsAdd(a, b) ==
  IF a = NaN \/ b = NaN THEN NaN
  ELSE IF ~IsFinite(a) /\ ~IsFinite(b) THEN (IF a = b THEN a ELSE NaN)
  ELSE IF ~IsFinite(a) THEN a
  ELSE IF ~IsFinite(b) THEN b
  ELSE a + b

RECURSIVE SqrtSearch(_, _, _)
SqrtSearch(n, lo, hi) ==
  IF lo >= hi THEN lo
  ELSE LET mid == (lo + hi + 1) \div 2
       IN IF mid * mid <= n THEN SqrtSearch(n, mid, hi) ELSE SqrtSearch(n, lo, mid - 1)

\* Math.sqrt, floored
Sqrt(n) == SqrtSearch(n, 0, 1024)

-----------------------------------------------------------------------------
(* THREE.Vector3 *)

Vec(x, y, z) == [x |-> x, y |-> y, z |-> z]
Zero3 == Vec(0, 0, 0)
One3 == Vec(Unit, Unit, Unit)

addVectors(a, b) == Vec(a.x + b.x, a.y + b.y, a.z + b.z)
subVectors(a, b) == Vec(a.x - b.x, a.y - b.y, a.z - b.z)
dot(a, b) == a.x * b.x + a.y * b.y + a.z * b.z
lengthSq(a) == dot(a, a)
distanceTo(a, b) == Sqrt(lengthSq(subVectors(a, b)))
\* addVectors(a, b).multiplyScalar(0.5); the poses keep a + b even
midpoint(a, b) == Vec((a.x + b.x) \div 2, (a.y + b.y) \div 2, (a.z + b.z) \div 2)

\* this.x += (v.x - this.x) * alpha, alpha in hundredths, on one component
LerpNum(p, t, alpha) ==
  IF p = NaN \/ t = NaN THEN NaN
  ELSE IF ~IsFinite(p) /\ ~IsFinite(t) THEN (IF p = t THEN p ELSE NaN)
  ELSE IF ~IsFinite(p) THEN p
  ELSE IF ~IsFinite(t) THEN (IF alpha = 0 THEN NaN ELSE t)
  ELSE p + ((t - p) * alpha) \div 100

\* Vector3.lerp(v, alpha)
lerp(p, t, alpha) ==
  Vec(LerpNum(p.x, t.x, alpha), LerpNum(p.y, t.y, alpha), LerpNum(p.z, t.z, alpha))

(* THREE.Quaternion, kept symbolic: the identity, the rotation built from a
   basis of three direction vectors, or the result of a slerp between two
   rotations.  The one law of slerp the model uses: t = 0 or equal ends
   leave the quaternion as it is, t = 1 copies the target. *)
IdentityQ == [kind |-> "identity"]
setFromRotationMatrix(xAxis, yAxis, zAxis) ==
  [kind |-> "basis", xAxis |-> xAxis, yAxis |-> yAxis, zAxis |-> zAxis]
slerp(q, target, alpha) ==
  IF alpha = 0 \/ q = target THEN q
  ELSE IF alpha = 100 THEN target
  ELSE [kind |-> "slerp", from |-> q, to |-> target, t |-> alpha]

crossVectors(a, b) ==
  Vec(a.y * b.z - a.z * b.y, a.z * b.x - a.x * b.z, a.x * b.y - a.y * b.x)
negate(a) == Vec(-a.x, -a.y, -a.z)

RECURSIVE Gcd(_, _)
Gcd(a, b) == IF b = 0 THEN a ELSE Gcd(b, a % b)

\* Vector3.normalize(): divideScalar(this.length() || 1).  The unit vector is
\* kept as the direction of v in lowest terms; the zero vector stays zero.
normalize(v) ==
  LET g == Gcd(Gcd(Abs(v.x), Abs(v.y)), Abs(v.z))
  IN IF g = 0 THEN v ELSE Vec(v.x \div g, v.y \div g, v.z \div g)

-----------------------------------------------------------------------------
(* Landmarks.  Index i of the source is position i + 1 of the sequence. *)

Keypoint(x, y, z) == [x |-> x, y |-> y, z |-> z, visibility |-> 1]

\* keypoints[i]; undefined past the end
At(keypoints, i) == IF i + 1 <= Len(keypoints) THEN <<keypoints[i + 1]>> ELSE <<>>

\* a 33-entry landmark set from the twelve points the core reads
Body(ls, rs, le, re, lw, rw, lh, rh, lk, rk, la, ra) ==
  [i \in 1..NumLandmarks |->
     CASE i = 12 -> ls [] i = 13 -> rs [] i = 14 -> le [] i = 15 -> re
       [] i = 16 -> lw [] i = 17 -> rw [] i = 24 -> lh [] i = 25 -> rh
       [] i = 26 -> lk [] i = 27 -> rk [] i = 28 -> la [] i = 29 -> ra
       [] OTHER -> Keypoint(0, 0, 0)]

\* arms horizontal, shoulders w cm apart (w even); hips at the origin, y down
Standing(w, lw, rw, le, re) ==
  Body(Keypoint(w \div 2, -60, 0), Keypoint(-(w \div 2), -60, 0), le, re, lw, rw,
       Keypoint(14, 0, 0), Keypoint(-14, 0, 0),
       Keypoint(14, 44, 0), Keypoint(-14, 44, 0),
       Keypoint(14, 90, 0), Keypoint(-14, 90, 0))

TPose == Standing(40, Keypoint(80, -60, 0), Keypoint(-80, -60, 0),
                  Keypoint(50, -60, 0), Keypoint(-50, -60, 0))
TPoseWide == Standing(44, Keypoint(82, -60, 0), Keypoint(-82, -60, 0),
                      Keypoint(52, -60, 0), Keypoint(-52, -60, 0))
ArmsDown == Standing(40, Keypoint(20, 0, 0), Keypoint(-20, 0, 0),
                     Keypoint(20, -30, 0), Keypoint(-20, -30, 0))
\* every landmark at one point
Collapsed == [i \in 1..NumLandmarks |-> Keypoint(0, 0, 0)]
\* a truncated landmark array
Truncated == SubSeq(TPose, 1, 20)

\* a T-pose with the shoulders w cm apart
Widened(w) ==
  Standing(w, Keypoint(w \div 2 + 60, -60, 0), Keypoint(-(w \div 2 + 60), -60, 0),
           Keypoint(w \div 2 + 30, -60, 0), Keypoint(-(w \div 2 + 30), -60, 0))

\* the T-pose as image landmarks of which every second one carries no
\* visibility and the others the visibility 0
Unseen ==
  [i \in 1..NumLandmarks |->
     IF i % 2 = 0 THEN [x |-> TPose[i].x, y |-> TPose[i].y, z |-> TPose[i].z]
     ELSE [TPose[i] EXCEPT !.visibility = 0]]

\* the landmark arrays a frame can carry, by name
PoseNames == {"TPose", "TPoseWide", "ArmsDown", "Collapsed", "Truncated", "Empty"}
Landmarks(name) ==
  CASE name = "TPose" -> TPose
    [] name = "TPoseWide" -> TPoseWide
    [] name = "ArmsDown" -> ArmsDown
    [] name = "Collapsed" -> Collapsed
    [] name = "Truncated" -> Truncated
    [] name = "Unseen" -> Unseen
    [] OTHER -> <<>>

(* A pose result of the oracle: each of its two arrays is a named landmark
   array or "absent". *)
Results(poseLandmarks, poseWorldLandmarks) ==
  [poseLandmarks |-> poseLandmarks, poseWorldLandmarks |-> poseWorldLandmarks]
NoResults == Results("absent", "absent")
ResultSets ==
  {Results(n, n) : n \in PoseNames} \cup {NoResults, Results("TPose", "absent"),
                                          Results("absent", "TPose")}

-----------------------------------------------------------------------------
(* PoseDetection (modules/poseDetection.js) *)

\* landmark.visibility || 0
VisibilityOrZero(landmark) ==
  IF "visibility" \in DOMAIN landmark THEN landmark.visibility ELSE 0

\* whether extractKeypoints3D(results) throws: results.poseLandmarks[i] is
\* undefined for an index i of poseWorldLandmarks, and its property is read
extractKeypoints3DThrows(results) ==
  /\ results.poseLandmarks # "absent"
  /\ results.poseWorldLandmarks # "absent"
  /\ Len(Landmarks(results.poseLandmarks)) < Len(Landmarks(results.poseWorldLandmarks))

\* extractKeypoints3D(results): x, y, z of poseWorldLandmarks[i] with the
\* visibility of poseLandmarks[i]; the value it returns when it does not throw
extractKeypoints3D(results) ==
  IF results.poseLandmarks = "absent" \/ results.poseWorldLandmarks = "absent" THEN <<>>
  ELSE LET world == Landmarks(results.poseWorldLandmarks)
           image == Landmarks(results.poseLandmarks)
       IN IF Len(world) = 0 THEN <<>> ELSE
          [i \in 1..Len(world) |->
             [x |-> world[i].x, y |-> world[i].y, z |-> world[i].z,
              visibility |-> VisibilityOrZero(image[i])]]

-----------------------------------------------------------------------------
(* ModelLoader (modelLoader.js) *)

\* this.baseMeasurements of the constructor, in cm; it has no hipWidth
DefaultBaseMeasurements ==
  [shoulderWidth |-> 40, torsoLength |-> 60, armLength |-> 70, legLength |-> 90]

\* the keys of this.modelUrls
ModelUrls == {"tshirt", "shirt", "jacket", "hoodie", "polo", "sweater", "necklace", "scarf"}

\* getBaseMeasurements(): a copy of this.baseMeasurements
getBaseMeasurements(ml) == ml.baseMeasurements

\* updateBaseMeasurements(m): { ...this.baseMeasurements, ...m }
updateBaseMeasurements(ml, measurements) ==
  [ml EXCEPT !.baseMeasurements =
     [f \in DOMAIN ml.baseMeasurements \cup DOMAIN measurements |->
        IF f \in DOMAIN measurements THEN measurements[f] ELSE ml.baseMeasurements[f]]]

\* baseMeasurements.<f> as a number: an undefined property divides as NaN
Measure(base, f) == IF f \in DOMAIN base THEN base[f] ELSE NaN

-----------------------------------------------------------------------------
(* ClothingFit (clothingFit.js) *)

ZeroMeasurements ==
  [shoulderWidth |-> 0, torsoLength |-> 0, armLength |-> 0, legLength |-> 0, hipWidth |-> 0]
ZeroFitQuality == [overall |-> 0, shoulders |-> 0, torso |-> 0, arms |-> 0, legs |-> 0]

\* keypointToVector3(keypoints[i]): y and z are sign-flipped
keypointToVector3(keypoints, i) ==
  LET k == At(keypoints, i)
  IN IF k = <<>> THEN Zero3 ELSE Vec(k[1].x, -k[1].y, -k[1].z)

TooFew(keypoints) == Len(keypoints) < NumLandmarks

\* the measurements calculateBodyMeasurements writes to this.userMeasurements
ExtractMeasurements(keypoints) ==
  LET leftShoulder == keypointToVector3(keypoints, 11)
      rightShoulder == keypointToVector3(keypoints, 12)
      leftHip == keypointToVector3(keypoints, 23)
      rightHip == keypointToVector3(keypoints, 24)
      leftElbow == keypointToVector3(keypoints, 13)
      rightElbow == keypointToVector3(keypoints, 14)
      leftWrist == keypointToVector3(keypoints, 15)
      rightWrist == keypointToVector3(keypoints, 16)
      leftKnee == keypointToVector3(keypoints, 25)
      rightKnee == keypointToVector3(keypoints, 26)
      leftAnkle == keypointToVector3(keypoints, 27)
      rightAnkle == keypointToVector3(keypoints, 28)
      shoulderMidpoint == midpoint(leftShoulder, rightShoulder)
      hipMidpoint == midpoint(leftHip, rightHip)
      leftArmLength == distanceTo(leftShoulder, leftElbow) + distanceTo(leftElbow, leftWrist)
      rightArmLength == distanceTo(rightShoulder, rightElbow) + distanceTo(rightElbow, rightWrist)
      leftLegLength == distanceTo(leftHip, leftKnee) + distanceTo(leftKnee, leftAnkle)
      rightLegLength == distanceTo(rightHip, rightKnee) + distanceTo(rightKnee, rightAnkle)
  IN [shoulderWidth |-> distanceTo(leftShoulder, rightShoulder),
      hipWidth |-> distanceTo(leftHip, rightHip),
      torsoLength |-> distanceTo(shoulderMidpoint, hipMidpoint),
      armLength |-> (leftArmLength + rightArmLength) \div 2,
      legLength |-> (leftLegLength + rightLegLength) \div 2]

\* calculateBodyMeasurements(keypoints): the new this.userMeasurements
calculateBodyMeasurements(cf, keypoints) ==
  IF TooFew(keypoints) THEN cf
  ELSE [cf EXCEPT !.userMeasurements = ExtractMeasurements(keypoints)]

\* checkTpose with a threshold test that admits the threshold's double
AbsDotBelowLoose(a, t, th) ==
  LET u == normalize(a)
      v == normalize(t)
      d == dot(u, v)
  IN IF lengthSq(u) = 0 \/ lengthSq(v) = 0 THEN 0 < th
     ELSE d * d * 10000 < 4 * th * th * lengthSq(u) * lengthSq(v)

\* Math.abs(a.normalize().dot(t.normalize())) < th / 100; a zero vector
\* normalises to zero, so its dot product is 0
AbsDotBelow(a, t, th) ==
  LET u == normalize(a)
      v == normalize(t)
      d == dot(u, v)
  IN IF lengthSq(u) = 0 \/ lengthSq(v) = 0 THEN 0 < th
     ELSE d * d * 10000 < th * th * lengthSq(u) * lengthSq(v)

\* checkTpose(keypoints)
checkTpose(keypoints) ==
  IF TooFew(keypoints) THEN FALSE
  ELSE
    LET leftShoulder == keypointToVector3(keypoints, 11)
        rightShoulder == keypointToVector3(keypoints, 12)
        leftWrist == keypointToVector3(keypoints, 15)
        rightWrist == keypointToVector3(keypoints, 16)
        leftHip == keypointToVector3(keypoints, 23)
        rightHip == keypointToVector3(keypoints, 24)
        leftArmVector == subVectors(leftWrist, leftShoulder)
        rightArmVector == subVectors(rightWrist, rightShoulder)
        torsoVector == subVectors(midpoint(leftShoulder, rightShoulder),
                                  midpoint(leftHip, rightHip))
    IN AbsDotBelow(leftArmVector, torsoVector, ArmThreshold)
       /\ AbsDotBelow(rightArmVector, torsoVector, ArmThreshold)

\* calibrate(keypoints): the returned boolean
calibrateResult(keypoints) == ~TooFew(keypoints) /\ checkTpose(keypoints)

\* calibrate with calculateBodyMeasurements moved before the T-pose check
calibrateMeasuresFirst(cf, keypoints) ==
  IF TooFew(keypoints) THEN cf
  ELSE IF ~checkTpose(keypoints) THEN calculateBodyMeasurements(cf, keypoints)
  ELSE [calculateBodyMeasurements(cf, keypoints) EXCEPT !.isCalibrated = TRUE]

\* calibrate with "this.isCalibrated = true" moved before its two checks
calibrateMarksFirst(cf, keypoints) ==
  IF TooFew(keypoints) \/ ~checkTpose(keypoints) THEN [cf EXCEPT !.isCalibrated = TRUE]
  ELSE [calculateBodyMeasurements(cf, keypoints) EXCEPT !.isCalibrated = TRUE]

\* calibrate without its call of calculateBodyMeasurements
calibrateKeepsMeasurements(cf, keypoints) ==
  IF TooFew(keypoints) THEN cf
  ELSE IF ~checkTpose(keypoints) THEN cf
  ELSE [cf EXCEPT !.isCalibrated = TRUE]

\* calibrate(keypoints): the ClothingFit state it leaves
calibrate(cf, keypoints) ==
  IF TooFew(keypoints) THEN cf
  ELSE IF ~checkTpose(keypoints) THEN cf
  ELSE [calculateBodyMeasurements(cf, keypoints) EXCEPT !.isCalibrated = TRUE]

\* setSmoothingFactor storing its argument as it is
setSmoothingFactorUnclamped(cf, factor) == [cf EXCEPT !.smoothingFactor = factor]

\* setSmoothingFactor(factor): Math.max(0, Math.min(1, factor)), in hundredths
setSmoothingFactor(cf, factor) == [cf EXCEPT !.smoothingFactor = Clamp(0, factor, 100)]

\* getMeasurements(): a copy of this.userMeasurements
getMeasurements(cf) == cf.userMeasurements

\* the scale vector with the size adjustment left off its z component
ScaleVectorFlat(xScale, yScale, zScale, sizeAdjustment) ==
  Vec(JsScale(xScale, sizeAdjustment, Unit),
      JsScale(yScale, sizeAdjustment, Unit),
      zScale)

\* new THREE.Vector3(x, y, (x + y) / 2) scaled by sizeAdjustment (in thousandths)
ScaleVector(xScale, yScale, zScale, sizeAdjustment) ==
  Vec(JsScale(xScale, sizeAdjustment, Unit),
      JsScale(yScale, sizeAdjustment, Unit),
      JsScale(zScale, sizeAdjustment, Unit))

\* updateModelFit, the switch on modelType: the target transform of a frame
TargetTransform(keypoints, baseMeasurements, modelType, sizeAdjustment) ==
  LET leftShoulder == keypointToVector3(keypoints, 11)
      rightShoulder == keypointToVector3(keypoints, 12)
      leftHip == keypointToVector3(keypoints, 23)
      rightHip == keypointToVector3(keypoints, 24)
      leftAnkle == keypointToVector3(keypoints, 27)
      rightAnkle == keypointToVector3(keypoints, 28)
      shoulderMidpoint == midpoint(leftShoulder, rightShoulder)
      hipMidpoint == midpoint(leftHip, rightHip)
      shoulderWidth == distanceTo(leftShoulder, rightShoulder)
      torsoLength == distanceTo(shoulderMidpoint, hipMidpoint)
      shoulderVector == normalize(subVectors(rightShoulder, leftShoulder))
      upVector == normalize(subVectors(shoulderMidpoint, hipMidpoint))
      forwardVector == normalize(crossVectors(shoulderVector, upVector))
      torsoRotation == setFromRotationMatrix(shoulderVector, upVector, forwardVector)
  IN CASE modelType \in {"tshirt", "shirt"} ->
            LET shoulderScale == JsDiv(shoulderWidth, Measure(baseMeasurements, "shoulderWidth"))
                torsoScale == JsDiv(torsoLength, Measure(baseMeasurements, "torsoLength"))
            IN [position |-> midpoint(shoulderMidpoint, hipMidpoint),
                rotation |-> torsoRotation,
                scale |-> ScaleVector(shoulderScale, torsoScale,
                                      JsScale(JsAdd(shoulderScale, torsoScale), 1, 2),
                                      sizeAdjustment)]
       [] modelType \in {"jacket", "hoodie"} ->
            LET jacketShoulderScale ==
                  JsScale(JsDiv(shoulderWidth, Measure(baseMeasurements, "shoulderWidth")), 110, 100)
                jacketTorsoScale ==
                  JsScale(JsDiv(torsoLength, Measure(baseMeasurements, "torsoLength")), 105, 100)
            IN [position |-> midpoint(shoulderMidpoint, hipMidpoint),
                rotation |-> torsoRotation,
                scale |-> ScaleVector(jacketShoulderScale, jacketTorsoScale,
                                      JsScale(JsAdd(jacketShoulderScale, jacketTorsoScale), 1, 2),
                                      sizeAdjustment)]
       [] modelType = "pants" ->
            LET hipWidth == distanceTo(leftHip, rightHip)
                legLength == (distanceTo(leftHip, leftAnkle) + distanceTo(rightHip, rightAnkle)) \div 2
                hipScale == JsDiv(hipWidth, Measure(baseMeasurements, "hipWidth"))
                legScale == JsDiv(legLength, Measure(baseMeasurements, "legLength"))
                hipVector == normalize(subVectors(rightHip, leftHip))
                legVector == normalize(subVectors(hipMidpoint, midpoint(leftAnkle, rightAnkle)))
                pantsForwardVector == normalize(crossVectors(hipVector, legVector))
            IN [position |-> hipMidpoint,
                rotation |-> setFromRotationMatrix(hipVector, negate(legVector), pantsForwardVector),
                scale |-> ScaleVector(hipScale, legScale, hipScale, sizeAdjustment)]
       [] OTHER ->
            [position |-> shoulderMidpoint,
             rotation |-> IdentityQ,
             scale |-> ScaleVector(Unit, Unit, Unit, sizeAdjustment)]

\* the smoothing with the weights of target and model exchanged
SmoothWeightsSwapped(object, target, smoothingFactor) ==
  [position |-> lerp(object.position, target.position, smoothingFactor),
   rotation |-> slerp(object.rotation, target.rotation, smoothingFactor),
   scale |-> lerp(object.scale, target.scale, smoothingFactor)]

\* updateModelFit, "Apply smoothing": the transform written to the model
\* object, blended from the transform the object carries
Smooth(object, target, smoothingFactor) ==
  [position |-> lerp(object.position, target.position, 100 - smoothingFactor),
   rotation |-> slerp(object.rotation, target.rotation, 100 - smoothingFactor),
   scale |-> lerp(object.scale, target.scale, 100 - smoothingFactor)]

\* calculateQualityScore with the ends of the band left out of it
calculateQualityScoreOpenBand(ratio, minIdeal, maxIdeal) ==
  IF ratio = NaN THEN NaN
  ELSE IF ~IsFinite(ratio) THEN 0
  ELSE IF ratio > minIdeal /\ ratio < maxIdeal THEN Unit
  ELSE IF ratio < minIdeal
    THEN (IF Unit - (minIdeal - ratio) * 2 > 0 THEN Unit - (minIdeal - ratio) * 2 ELSE 0)
    ELSE (IF Unit - (ratio - maxIdeal) * 2 > 0 THEN Unit - (ratio - maxIdeal) * 2 ELSE 0)

\* calculateQualityScore(ratio, minIdeal, maxIdeal), all in thousandths
calculateQualityScore(ratio, minIdeal, maxIdeal) ==
  IF ratio = NaN THEN NaN
  ELSE IF ~IsFinite(ratio) THEN 0
  ELSE IF ratio >= minIdeal /\ ratio <= maxIdeal THEN Unit
  ELSE IF ratio < minIdeal
    THEN (IF Unit - (minIdeal - ratio) * 2 > 0 THEN Unit - (minIdeal - ratio) * 2 ELSE 0)
    ELSE (IF Unit - (ratio - maxIdeal) * 2 > 0 THEN Unit - (ratio - maxIdeal) * 2 ELSE 0)

\* measurement / scale * c, the divisor without its parentheses
FitRatioUnparenthesised(measurement, scale, c) ==
  IF IsFinite(scale) /\ scale # 0 THEN (measurement * c * 100) \div scale ELSE NaN

\* measurement / (scale * c): measurement in cm, scale in thousandths, c in cm
FitRatio(measurement, scale, c) ==
  JsDiv(measurement * Unit, IF IsFinite(scale) THEN scale * c ELSE scale)

\* a * wa + b * wb + c * wc, weights in tenths
Weighted(a, wa, b, wb, c, wc) ==
  IF a = NaN \/ b = NaN \/ c = NaN THEN NaN ELSE (a * wa + b * wb + c * wc) \div 10

\* calculateFitQuality(modelType, keypoints, model): the new this.fitQuality
calculateFitQuality(cf, modelType, keypoints, scale) ==
  IF TooFew(keypoints) THEN cf.fitQuality
  ELSE
    LET m == cf.userMeasurements
    IN CASE modelType \in {"tshirt", "shirt"} ->
              LET shoulders == calculateQualityScore(FitRatio(m.shoulderWidth, scale.x, 40), 900, 1100)
                  torso == calculateQualityScore(FitRatio(m.torsoLength, scale.y, 60), 900, 1100)
              IN [ZeroFitQuality EXCEPT !.shoulders = shoulders, !.torso = torso,
                    !.overall = Weighted(shoulders, 6, torso, 4, 0, 0)]
         [] modelType \in {"jacket", "hoodie"} ->
              LET shoulders == calculateQualityScore(FitRatio(m.shoulderWidth, scale.x, 44), 850, 1050)
                  torso == calculateQualityScore(FitRatio(m.torsoLength, scale.y, 63), 850, 1050)
                  arms == calculateQualityScore(FitRatio(m.armLength, scale.x, 70), 900, 1100)
              IN [ZeroFitQuality EXCEPT !.shoulders = shoulders, !.torso = torso, !.arms = arms,
                    !.overall = Weighted(shoulders, 4, torso, 3, arms, 3)]
         [] modelType = "pants" ->
              LET torso == calculateQualityScore(FitRatio(m.hipWidth, scale.x, 40), 900, 1100)
                  legs == calculateQualityScore(FitRatio(m.legLength, scale.y, 90), 900, 1100)
              IN [ZeroFitQuality EXCEPT !.torso = torso, !.legs = legs,
                    !.overall = Weighted(torso, 4, legs, 6, 0, 0)]
         [] OTHER -> ZeroFitQuality

\* the early return of updateModelFit without its test of keypoints.length
FitSkippedNoModelOnly(model, keypoints) == model = "null"

\* whether updateModelFit returns at its first line
FitSkipped(model, keypoints) == model = "null" \/ TooFew(keypoints)

\* whether this.previousTransforms has no entry for the model yet
FirstFrame(cf, model) == model \notin DOMAIN cf.previousTransforms

\* updateModelFit(...): the transform the model object carries afterwards
FitObject(cf, object, keypoints, baseMeasurements, modelType, sizeAdjustment) ==
  Smooth(object, TargetTransform(keypoints, baseMeasurements, modelType, sizeAdjustment),
         cf.smoothingFactor)

\* updateModelFit(...): the ClothingFit state afterwards
FitState(cf, model, object, keypoints, baseMeasurements, modelType, sizeAdjustment) ==
  LET applied == FitObject(cf, object, keypoints, baseMeasurements, modelType, sizeAdjustment)
      measured == calculateBodyMeasurements(cf, keypoints)
  IN [measured EXCEPT
        !.previousTransforms =
           [u \in DOMAIN cf.previousTransforms \cup {model} |->
              IF u = model THEN applied ELSE cf.previousTransforms[u]],
        !.fitQuality = calculateFitQuality(measured, modelType, keypoints, applied.scale)]

-----------------------------------------------------------------------------
(* Customization (modules/customization.js).  Opacity is in hundredths, the
   size adjustment in thousandths. *)

\* the keys of this.colors and of this.textures
Colors == {"black", "white", "red", "blue", "green", "yellow", "purple", "orange"}
Textures == {"solid", "denim", "leather", "cotton"}

\* this.currentSettings of the constructor
DefaultSettings == [color |-> "black", texture |-> "solid", opacity |-> 100, size |-> Unit]

\* whether applyColor, applyTexture, applyOpacity, applySizeAdjustment accept
\* their argument for a model that exists
ColorAccepted(colorName) == colorName \in Colors
TextureAccepted(textureName) == textureName \in Textures
OpacityAccepted(opacity) == ~(opacity < 0 \/ opacity > 100)
SizeAccepted(sizeAdjustment) == ~(sizeAdjustment <= 0)

\* the size adjustment applySizeAdjustment stores
StoredSize(sizeAdjustment) == Clamp(Unit \div 2, sizeAdjustment, 2 * Unit)

\* what applyAllSettings(model) leaves on the model: the four current settings
Applied(settings) ==
  [color |-> settings.color, map |-> settings.texture, opacity |-> settings.opacity,
   sizeAdjustment |-> StoredSize(settings.size)]

\* the appearance of the model objects after applyAllSettings(model)
applyAllSettings(model) ==
  [u \in DOMAIN appearance \cup {model} |->
     IF u = model THEN Applied(Customization.currentSettings) ELSE appearance[u]]

-----------------------------------------------------------------------------
(* State *)

EmptyMap == [u \in {} |-> Zero3]

\* a freshly loaded gltf.scene: position 0, identity quaternion, scale 1
NewObject == [position |-> Zero3, rotation |-> IdentityQ, scale |-> One3]

\* the number of 500 ms interval firings that fit in the 10 s budget
PollsPerBudget == CalibrationTimeoutMs \div PollIntervalMs

\* the singletons and the application after construction
Constructed ==
  /\ app = [isInitialized |-> FALSE, isRunning |-> FALSE, isCalibrated |-> FALSE,
            currentModelType |-> "tshirt", sizeSlider |-> Unit, cameraReady |-> FALSE,
            status |-> "", guideHidden |-> TRUE]
  /\ PoseDetection = [isInitialized |-> FALSE, isRunning |-> FALSE, camera |-> "null",
                      onPoseCallback |-> "undefined", onPoseDetectedCallback |-> "null"]
  /\ ModelLoader = [baseMeasurements |-> DefaultBaseMeasurements, currentModel |-> "null",
                    models |-> {}]
  /\ ClothingFit = [smoothingFactor |-> DefaultSmoothingFactor, previousTransforms |-> EmptyMap,
                    userMeasurements |-> ZeroMeasurements, isCalibrated |-> FALSE,
                    fitQuality |-> ZeroFitQuality]
  /\ SceneManager = [isInitialized |-> FALSE, isAnimating |-> FALSE, children |-> {}]
  /\ objects = EmptyMap
  /\ timers = <<>>
  /\ oracle = [results |-> NoResults, delivered |-> 0, calls |-> 0, events |-> 0,
               changes |-> 0]
  /\ loads = <<>>
  /\ Customization = [currentSettings |-> DefaultSettings]
  /\ appearance = EmptyMap

Init ==
  /\ Constructed
  /\ last = [op |-> "constructor"]

-----------------------------------------------------------------------------
(* EnhancedVirtualTryOn (bundle.js) *)

\* initialize()
Initialize ==
  /\ ~app.isInitialized
  /\ app' = [app EXCEPT !.isInitialized = TRUE, !.status = "Ready"]
  /\ PoseDetection' = [PoseDetection EXCEPT !.isRunning = FALSE]
  /\ last' = [op |-> "initialize"]
  /\ UNCHANGED <<ModelLoader, ClothingFit, SceneManager, objects, timers, oracle, loads,
                 Customization, appearance>>

\* PoseDetection.initialize(video, canvas, callback); ok is whether new Pose()
\* and its setup succeed.  The callback is stored before they are tried.
initialize(pd, callback, ok) ==
  IF pd.isInitialized THEN pd
  ELSE IF ok THEN [pd EXCEPT !.onPoseCallback = callback, !.isInitialized = TRUE]
  ELSE [pd EXCEPT !.onPoseCallback = callback]

\* PoseDetection.start(): this.camera is null, so camera.start() throws and
\* the catch resets isRunning
start(pd) ==
  IF pd.isRunning THEN pd
  ELSE IF pd.camera = "null" THEN [pd EXCEPT !.isRunning = FALSE]
  ELSE [pd EXCEPT !.isRunning = TRUE]

\* the tail of start() after "await this.loadModel(...)"
Started(a) == [a EXCEPT !.isRunning = TRUE]

\* loadModel(modelType) up to the answer of the loader.  The model is taken
\* from ModelLoader.models when cached; a type without URL is rejected at once.
BeginLoad(a, modelType, then) ==
  LET removed == [SceneManager EXCEPT !.children = @ \ {ModelLoader.currentModel},
                                      !.isInitialized = TRUE]
      done(sm) == IF then = "start" THEN [sm EXCEPT !.isAnimating = TRUE] ELSE sm
      cont(x) == IF then = "start" THEN Started(x) ELSE x
  IN IF modelType \notin ModelUrls THEN
       /\ app' = cont(a)
       /\ SceneManager' = done(removed)
       /\ UNCHANGED <<ModelLoader, objects, loads, appearance>>
     ELSE IF modelType \in ModelLoader.models THEN
       /\ app' = cont([a EXCEPT !.currentModelType = modelType])
       /\ ModelLoader' = [ModelLoader EXCEPT !.currentModel = modelType]
       /\ SceneManager' = done([removed EXCEPT !.children = @ \cup {modelType}])
       /\ appearance' = applyAllSettings(modelType)
       /\ UNCHANGED <<objects, loads>>
     ELSE
       /\ Len(loads) < MaxLoads
       /\ app' = a
       /\ SceneManager' = removed
       /\ loads' = Append(loads, [modelType |-> modelType, then |-> then])
       /\ UNCHANGED <<ModelLoader, objects, appearance>>

\* start(): cameraOk is the answer of getUserMedia, poseOk whether the
\* MediaPipe Pose instance could be created
Start(cameraOk, poseOk) ==
  /\ app.isInitialized
  /\ ~app.isRunning
  /\ last' = [op |-> "start"]
  /\ UNCHANGED <<ClothingFit, timers, oracle, Customization>>
  /\ IF ~app.cameraReady /\ ~cameraOk THEN
       /\ app' = [app EXCEPT !.status = "Error"]
       /\ UNCHANGED <<PoseDetection, ModelLoader, SceneManager, objects, loads, appearance>>
     ELSE IF ~PoseDetection.isInitialized /\ ~poseOk THEN
       /\ app' = [app EXCEPT !.status = "Error", !.cameraReady = TRUE]
       /\ SceneManager' = [SceneManager EXCEPT !.isInitialized = TRUE]
       /\ PoseDetection' = initialize(PoseDetection, "onPoseDetected", FALSE)
       /\ UNCHANGED <<ModelLoader, objects, loads, appearance>>
     ELSE
       /\ PoseDetection' = start(initialize(PoseDetection, "onPoseDetected", TRUE))
       /\ BeginLoad([app EXCEPT !.cameraReady = TRUE], app.currentModelType, "start")

\* the GLTFLoader answers load i: ok, or an error for the URL and its fallback
LoadDone(i, ok) ==
  /\ i \in 1..Len(loads)
  /\ LET l == loads[i]
         cont(x) == IF l.then = "start" THEN Started(x) ELSE x
     IN /\ loads' = SubSeq(loads, 1, i - 1) \o SubSeq(loads, i + 1, Len(loads))
        /\ IF ok THEN
             /\ ModelLoader' = [ModelLoader EXCEPT !.models = @ \cup {l.modelType},
                                                   !.currentModel = l.modelType]
             /\ objects' = [u \in DOMAIN objects \cup {l.modelType} |->
                              IF u = l.modelType THEN NewObject ELSE objects[u]]
             /\ SceneManager' = [SceneManager EXCEPT
                                   !.children = @ \cup {l.modelType},
                                   !.isAnimating = IF l.then = "start" THEN TRUE ELSE @]
             /\ appearance' = applyAllSettings(l.modelType)
             /\ app' = cont([app EXCEPT !.currentModelType = l.modelType])
           ELSE
             /\ app' = cont(app)
             /\ SceneManager' = [SceneManager EXCEPT
                                   !.isAnimating = IF l.then = "start" THEN TRUE ELSE @]
             /\ UNCHANGED <<ModelLoader, objects, appearance>>
        /\ last' = [op |-> "loadModel", ret |-> ok, model |-> l.modelType, then |-> l.then]
  /\ UNCHANGED <<PoseDetection, ClothingFit, timers, oracle, Customization>>

\* stop().  It touches no timer; the field "stopped" of an attempt only
\* records that stop() ran after the attempt was requested.
Stop ==
  /\ last' = [op |-> "stop", ret |-> app.isRunning]
  /\ IF ~app.isRunning THEN
       UNCHANGED <<app, PoseDetection, SceneManager, timers>>
     ELSE
       /\ PoseDetection' = [PoseDetection EXCEPT !.isRunning = FALSE]
       /\ SceneManager' = [SceneManager EXCEPT !.isAnimating = FALSE]
       /\ app' = [app EXCEPT !.isRunning = FALSE]
       /\ timers' = IF Len(timers) = 0 THEN timers
                    ELSE [i \in 1..Len(timers) |-> [timers[i] EXCEPT !.stopped = TRUE]]
  /\ UNCHANGED <<ModelLoader, ClothingFit, objects, oracle, loads, Customization, appearance>>

\* ClothingFit.updateModelFit(model, keypoints, baseMeasurements, options)
updateModelFit(model, keypoints, baseMeasurements, modelType, sizeAdjustment) ==
  IF FitSkipped(model, keypoints) THEN UNCHANGED <<ClothingFit, objects>>
  ELSE
    /\ ClothingFit' = FitState(ClothingFit, model, objects[model], keypoints,
                               baseMeasurements, modelType, sizeAdjustment)
    /\ objects' = [objects EXCEPT ![model] =
                     FitObject(ClothingFit, objects[model], keypoints,
                               baseMeasurements, modelType, sizeAdjustment)]

\* what a call of updateModelFit was given and what it aimed at
FitLog(model, keypoints, baseMeasurements, modelType, sizeAdjustment) ==
  IF FitSkipped(model, keypoints) THEN [ran |-> FALSE]
  ELSE [ran |-> TRUE, model |-> model, modelType |-> modelType,
        first |-> FirstFrame(ClothingFit, model),
        baseMeasurements |-> baseMeasurements,
        target |-> TargetTransform(keypoints, baseMeasurements, modelType, sizeAdjustment)]

\* the first line of onPoseDetected without its test of isRunning
PoseIgnoredNoModelOnly == ModelLoader.currentModel = "null"

\* whether onPoseDetected returns at its first line
PoseIgnored == ~app.isRunning \/ ModelLoader.currentModel = "null"

\* onPoseDetected(keypoints)
onPoseDetected(keypoints) ==
  IF PoseIgnored THEN UNCHANGED <<ClothingFit, objects>>
  ELSE updateModelFit(ModelLoader.currentModel, keypoints, getBaseMeasurements(ModelLoader),
                      app.currentModelType, app.sizeSlider)

PoseLog(keypoints) ==
  IF PoseIgnored THEN [ran |-> FALSE]
  ELSE FitLog(ModelLoader.currentModel, keypoints, getBaseMeasurements(ModelLoader),
              app.currentModelType, app.sizeSlider)

\* calibrate(): the request.  It starts the 500 ms interval and the 10 s
\* timeout, whatever timers earlier requests have left; n bounds the
\* requests of a session.
CalibrateWithin(n) ==
  /\ Len(timers) < n
  /\ last' = [op |-> "calibrate", ret |-> app.isRunning]
  /\ IF ~app.isRunning THEN UNCHANGED <<app, timers>>
     ELSE
       /\ app' = [app EXCEPT !.guideHidden = FALSE, !.status = "Calibrating..."]
       /\ timers' = Append(timers,
            [interval |-> TRUE, timeout |-> TRUE, polls |-> 0,
             succeeded |-> FALSE, timedOut |-> FALSE, stopped |-> FALSE,
             requested |-> [ClothingFit |-> ClothingFit.isCalibrated,
                            app |-> app.isCalibrated,
                            baseMeasurements |-> ModelLoader.baseMeasurements]])
  /\ UNCHANGED <<PoseDetection, ModelLoader, ClothingFit, SceneManager, objects, oracle, loads,
                 Customization, appearance>>

\* calibrate() in a session of at most MaxAttempts requests
Calibrate == CalibrateWithin(MaxAttempts)

\* the interval callback reading the latest pose result the oracle delivered
LatestResults == oracle.results

\* the pose result the interval callback hands to extractKeypoints3D
PollResults == Results("Empty", "Empty")

\* the interval callback of attempt i.  While the 10 s timeout is pending the
\* interval has fired at most PollsPerBudget times; the count stops there.
Poll(i) ==
  /\ i \in 1..Len(timers)
  /\ timers[i].interval
  /\ timers[i].timeout => timers[i].polls < PollsPerBudget
  /\ LET keypoints == extractKeypoints3D(PollResults)
         success == calibrateResult(keypoints)
     IN /\ ClothingFit' = calibrate(ClothingFit, keypoints)
        /\ timers' = [timers EXCEPT ![i].polls = IF @ < PollsPerBudget THEN @ + 1 ELSE @,
                                    ![i].interval = ~success,
                                    ![i].succeeded = success]
        /\ app' = IF success
                    THEN [app EXCEPT !.isCalibrated = TRUE, !.guideHidden = TRUE,
                                     !.status = "Calibrated"]
                    ELSE app
        /\ ModelLoader' = IF success /\ ModelLoader.currentModel # "null"
                            THEN updateBaseMeasurements(ModelLoader, getMeasurements(ClothingFit'))
                            ELSE ModelLoader
        /\ last' = [op |-> "poll", attempt |-> i, ret |-> success,
                    afterTimeout |-> timers[i].timedOut, afterSuccess |-> timers[i].succeeded]
  /\ UNCHANGED <<PoseDetection, SceneManager, objects, oracle, loads, Customization, appearance>>

\* the timeout callback without its clearInterval(checkInterval)
TimeoutKeepsInterval(i) ==
  /\ i \in 1..Len(timers)
  /\ timers[i].timeout
  /\ timers[i].interval => timers[i].polls >= PollsPerBudget - 1
  /\ timers' = [timers EXCEPT ![i].timeout = FALSE, ![i].timedOut = TRUE]
  /\ app' = IF ~app.isCalibrated
              THEN [app EXCEPT !.guideHidden = TRUE, !.status = "Ready"]
              ELSE app
  /\ last' = [op |-> "timeout", attempt |-> i]
  /\ UNCHANGED <<PoseDetection, ModelLoader, ClothingFit, SceneManager, objects, oracle, loads,
                 Customization, appearance>>

\* the timeout callback committing what has been measured so far:
\* ModelLoader.updateBaseMeasurements(ClothingFit.getMeasurements())
TimeoutCommits(i) ==
  /\ i \in 1..Len(timers)
  /\ timers[i].timeout
  /\ timers[i].interval => timers[i].polls >= PollsPerBudget - 1
  /\ timers' = [timers EXCEPT ![i].interval = FALSE, ![i].timeout = FALSE,
                              ![i].timedOut = TRUE]
  /\ app' = IF ~app.isCalibrated
              THEN [app EXCEPT !.guideHidden = TRUE, !.status = "Ready"]
              ELSE app
  /\ ModelLoader' = updateBaseMeasurements(ModelLoader, getMeasurements(ClothingFit))
  /\ last' = [op |-> "timeout", attempt |-> i]
  /\ UNCHANGED <<PoseDetection, ClothingFit, SceneManager, objects, oracle, loads,
                 Customization, appearance>>

\* the timeout callback without its update of the guide and the status
TimeoutLeavesGuide(i) ==
  /\ i \in 1..Len(timers)
  /\ timers[i].timeout
  /\ timers[i].interval => timers[i].polls >= PollsPerBudget - 1
  /\ timers' = [timers EXCEPT ![i].interval = FALSE, ![i].timeout = FALSE,
                              ![i].timedOut = TRUE]
  /\ last' = [op |-> "timeout", attempt |-> i]
  /\ UNCHANGED <<app, PoseDetection, ModelLoader, ClothingFit, SceneManager, objects, oracle,
                 loads, Customization, appearance>>

\* the 10 s timeout callback of attempt i; the interval firings due before
\* it have run
Timeout(i) ==
  /\ i \in 1..Len(timers)
  /\ timers[i].timeout
  /\ timers[i].interval => timers[i].polls >= PollsPerBudget - 1
  /\ timers' = [timers EXCEPT ![i].interval = FALSE, ![i].timeout = FALSE,
                              ![i].timedOut = TRUE]
  /\ app' = IF ~app.isCalibrated
              THEN [app EXCEPT !.guideHidden = TRUE, !.status = "Ready"]
              ELSE app
  /\ last' = [op |-> "timeout", attempt |-> i]
  /\ UNCHANGED <<PoseDetection, ModelLoader, ClothingFit, SceneManager, objects, oracle, loads,
                 Customization, appearance>>

\* onResults(results): the listener registered with the Pose instance
onResults(results) ==
  /\ PoseDetection.isInitialized
  /\ oracle.delivered < MaxResults
  /\ oracle' = [oracle EXCEPT !.results = results, !.delivered = @ + 1]
  /\ LET keypoints3D == extractKeypoints3D(results)
         called == results.poseLandmarks # "absent"
                   /\ PoseDetection.onPoseDetectedCallback # "null"
     IN /\ IF called THEN onPoseDetected(keypoints3D) ELSE UNCHANGED <<ClothingFit, objects>>
        /\ last' = [op |-> "onResults", results |-> results,
                    callbacks |-> IF called THEN 1 ELSE 0,
                    fit |-> IF called THEN PoseLog(keypoints3D) ELSE [ran |-> FALSE]]
  /\ UNCHANGED <<app, PoseDetection, ModelLoader, SceneManager, timers, loads,
                 Customization, appearance>>

-----------------------------------------------------------------------------
(* The handlers and methods called directly, as their callers may *)

\* app.onPoseDetected(keypoints), the handler handed to PoseDetection.initialize
CallOnPoseDetected(name) ==
  /\ oracle.calls < MaxCalls
  /\ oracle' = [oracle EXCEPT !.calls = @ + 1]
  /\ onPoseDetected(Landmarks(name))
  /\ last' = [op |-> "onPoseDetected", keypoints |-> name, fit |-> PoseLog(Landmarks(name))]
  /\ UNCHANGED <<app, PoseDetection, ModelLoader, SceneManager, timers, loads,
                 Customization, appearance>>

\* the garment categories of updateModelFit, and one it does not know
ModelTypes == {"tshirt", "shirt", "jacket", "hoodie", "pants", "hat"}

\* ClothingFit.updateModelFit(ModelLoader.currentModel, keypoints,
\*   ModelLoader.getBaseMeasurements(), { modelType, sizeAdjustment })
CallUpdateModelFit(name, modelType) ==
  /\ oracle.calls < MaxCalls
  /\ oracle' = [oracle EXCEPT !.calls = @ + 1]
  /\ updateModelFit(ModelLoader.currentModel, Landmarks(name),
                    getBaseMeasurements(ModelLoader), modelType, app.sizeSlider)
  /\ last' = [op |-> "updateModelFit", keypoints |-> name,
              fit |-> FitLog(ModelLoader.currentModel, Landmarks(name),
                             getBaseMeasurements(ModelLoader), modelType, app.sizeSlider)]
  /\ UNCHANGED <<app, PoseDetection, ModelLoader, SceneManager, timers, loads,
                 Customization, appearance>>

\* ClothingFit.calibrate(keypoints)
CallCalibrate(name) ==
  /\ oracle.calls < MaxCalls
  /\ oracle' = [oracle EXCEPT !.calls = @ + 1]
  /\ ClothingFit' = calibrate(ClothingFit, Landmarks(name))
  /\ last' = [op |-> "ClothingFit.calibrate", keypoints |-> name,
              ret |-> calibrateResult(Landmarks(name)),
              before |-> [isCalibrated |-> ClothingFit.isCalibrated,
                          userMeasurements |-> ClothingFit.userMeasurements]]
  /\ UNCHANGED <<app, PoseDetection, ModelLoader, SceneManager, objects, timers, loads,
                 Customization, appearance>>

-----------------------------------------------------------------------------
(* Specifications *)

\* the application as it is wired: user requests, timers, loader answers and
\* the oracle's pose results
Next ==
  \/ Initialize
  \/ \E cameraOk, poseOk \in BOOLEAN : Start(cameraOk, poseOk)
  \/ \E i \in 1..MaxLoads, ok \in BOOLEAN : LoadDone(i, ok)
  \/ Stop
  \/ Calibrate
  \/ \E i \in 1..MaxAttempts : Poll(i)
  \/ \E i \in 1..MaxAttempts : Timeout(i)
  \/ \E results \in ResultSets : onResults(results)

Spec == Init /\ [][Next]_vars

\* the session with the pose handler and the ClothingFit methods called directly
NextApi ==
  \/ Initialize
  \/ \E cameraOk, poseOk \in BOOLEAN : Start(cameraOk, poseOk)
  \/ \E i \in 1..MaxLoads, ok \in BOOLEAN : LoadDone(i, ok)
  \/ Stop
  \/ \E name \in PoseNames : CallOnPoseDetected(name)
  \/ \E name \in PoseNames, modelType \in ModelTypes : CallUpdateModelFit(name, modelType)
  \/ \E name \in PoseNames : CallCalibrate(name)

SpecApi == Init /\ [][NextApi]_vars

-----------------------------------------------------------------------------
(* The T-pose gate on its own: checkTpose and calibrate applied to one
   33-entry landmark set *)

\* the x offset of the shoulder midpoint from the hip midpoint, in cm: an
\* upright torso and one leaning sideways
Tilts == {0, 20}

\* wrist minus shoulder, in landmark coordinates (y down), in cm: horizontal,
\* hanging, raised, forward, slightly and clearly off the horizontal, on the
\* wrist at the shoulder
ArmOffsets ==
  {Vec(40, 0, 0), Vec(0, 40, 0), Vec(0, -40, 0), Vec(0, 0, 40), Vec(40, 12, 0),
   Vec(40, 13, 0), Vec(30, 10, 0), Vec(30, -10, 0), Vec(0, 0, 0)}

\* the landmark set with the shoulders 40 cm apart, 60 cm above the hips and
\* tilt cm to the side, the left wrist at la from the left shoulder and the
\* right wrist at ra, mirrored, from the right shoulder
GatePose(tilt, la, ra) ==
  LET ls == Keypoint(tilt + 20, -60, 0)
      rs == Keypoint(tilt - 20, -60, 0)
  IN Body(ls, rs, ls, rs,
          Keypoint(ls.x + la.x, ls.y + la.y, ls.z + la.z),
          Keypoint(rs.x - ra.x, rs.y + ra.y, rs.z + ra.z),
          Keypoint(14, 0, 0), Keypoint(-14, 0, 0),
          Keypoint(14, 44, 0), Keypoint(-14, 44, 0),
          Keypoint(14, 90, 0), Keypoint(-14, 90, 0))

InitGate ==
  /\ Constructed
  /\ \E tilt \in Tilts, la, ra \in ArmOffsets :
        last = [op |-> "landmarks", tilt |-> tilt, la |-> la, ra |-> ra]

\* ClothingFit.checkTpose(keypoints) and ClothingFit.calibrate(keypoints) on
\* the landmark set drawn
CallCheckTpose ==
  /\ last.op = "landmarks"
  /\ LET keypoints == GatePose(last.tilt, last.la, last.ra)
     IN /\ ClothingFit' = calibrate(ClothingFit, keypoints)
        /\ last' = [op |-> "checkTpose", tilt |-> last.tilt, la |-> last.la, ra |-> last.ra,
                    length |-> Len(keypoints),
                    ret |-> checkTpose(keypoints),
                    calibrated |-> calibrateResult(keypoints)]
  /\ UNCHANGED <<app, PoseDetection, ModelLoader, SceneManager, objects, timers, oracle, loads,
                 Customization, appearance>>

NextGate == CallCheckTpose

SpecGate == InitGate /\ [][NextGate]_vars

-----------------------------------------------------------------------------
(* The user interface of the application (bundle.js: setupEventListeners,
   setupProductDetailListeners) with the render loop of the SceneManager *)

\* one more customization click or input, resize, screenshot or rendered frame
Event ==
  /\ oracle.events < MaxEvents
  /\ oracle' = [oracle EXCEPT !.events = @ + 1]

\* one more change of the garment: a product's try-on button or the
\* change-model button
Change ==
  /\ oracle.changes < MaxChanges
  /\ oracle' = [oracle EXCEPT !.changes = @ + 1]

\* modelTypeMap[productType] || 'tshirt'
modelTypeMap(productType) ==
  CASE productType = "shirt" -> "shirt"
    [] productType = "tshirt" -> "tshirt"
    [] productType = "hoodie" -> "hoodie"
    [] productType = "business-shirt" -> "shirt"
    [] productType = "polo" -> "tshirt"
    [] productType = "jacket" -> "jacket"
    [] productType = "cap" -> "hat"
    [] OTHER -> "tshirt"

\* the products whose try-on button is clicked: one without model URL, one
\* with, one the map does not know
ProductTypes == {"cap", "jacket", "socks"}

\* startWithProduct(productType): start() with the model type of the product,
\* which is stored before anything is awaited, and without the isRunning test
StartWithProduct(productType, cameraOk, poseOk) ==
  /\ app.isInitialized
  /\ Change
  /\ last' = [op |-> "startWithProduct", product |-> productType]
  /\ UNCHANGED <<ClothingFit, timers, Customization>>
  /\ LET a == [app EXCEPT !.currentModelType = modelTypeMap(productType)]
     IN IF ~app.cameraReady /\ ~cameraOk THEN
          /\ app' = [a EXCEPT !.status = "Error"]
          /\ UNCHANGED <<PoseDetection, ModelLoader, SceneManager, objects, loads, appearance>>
        ELSE IF ~PoseDetection.isInitialized /\ ~poseOk THEN
          /\ app' = [a EXCEPT !.status = "Error", !.cameraReady = TRUE]
          /\ SceneManager' = [SceneManager EXCEPT !.isInitialized = TRUE]
          /\ PoseDetection' = initialize(PoseDetection, "onPoseDetected", FALSE)
          /\ UNCHANGED <<ModelLoader, objects, loads, appearance>>
        ELSE
          /\ PoseDetection' = start(initialize(PoseDetection, "onPoseDetected", TRUE))
          /\ BeginLoad([a EXCEPT !.cameraReady = TRUE], a.currentModelType, "start")

\* modelTypes[(modelTypes.indexOf(current) + 1) % modelTypes.length]
NextModelType(current) ==
  CASE current = "tshirt" -> "jacket"
    [] current = "jacket" -> "hoodie"
    [] current = "hoodie" -> "shirt"
    [] current = "shirt" -> "pants"
    [] OTHER -> "tshirt"

\* openModelSelection(), the click on the change-model button, which start()
\* enables and stop() disables
OpenModelSelection ==
  /\ app.isRunning
  /\ Change
  /\ last' = [op |-> "openModelSelection", model |-> NextModelType(app.currentModelType)]
  /\ BeginLoad(app, NextModelType(app.currentModelType), "select")
  /\ UNCHANGED <<PoseDetection, ClothingFit, timers, Customization>>

\* the values the listeners below are given: a known and an unknown name, an
\* opacity inside and one outside [0,1], sizes below, inside and above [0.5,2]
ColorChoices == {"red", "pink"}
TextureChoices == {"denim", "silk"}
OpacityValues == {50, 150}
SizeValues == {300, 1200, 2500}

\* click on a color option: Customization.applyColor(currentModel, color)
ColorClick(color) ==
  /\ app.isInitialized
  /\ Event
  /\ LET model == ModelLoader.currentModel
         ok == model # "null" /\ ColorAccepted(color)
     IN /\ Customization' = IF ok THEN [Customization EXCEPT !.currentSettings.color = color]
                                  ELSE Customization
        /\ appearance' = IF ok THEN [appearance EXCEPT ![model].color = color] ELSE appearance
        /\ last' = [op |-> "color", value |-> color, ret |-> ok]
  /\ UNCHANGED <<app, PoseDetection, ModelLoader, ClothingFit, SceneManager, objects, timers, loads>>

\* click on a texture option: Customization.applyTexture(currentModel, texture)
TextureClick(texture) ==
  /\ app.isInitialized
  /\ Event
  /\ LET model == ModelLoader.currentModel
         ok == model # "null" /\ TextureAccepted(texture)
     IN /\ Customization' = IF ok THEN [Customization EXCEPT !.currentSettings.texture = texture]
                                  ELSE Customization
        /\ appearance' = IF ok THEN [appearance EXCEPT ![model].map = texture] ELSE appearance
        /\ last' = [op |-> "texture", value |-> texture, ret |-> ok]
  /\ UNCHANGED <<app, PoseDetection, ModelLoader, ClothingFit, SceneManager, objects, timers, loads>>

\* input on the opacity slider: Customization.applyOpacity(currentModel, opacity)
OpacityInput(opacity) ==
  /\ app.isInitialized
  /\ Event
  /\ LET model == ModelLoader.currentModel
         ok == model # "null" /\ OpacityAccepted(opacity)
     IN /\ Customization' = IF ok THEN [Customization EXCEPT !.currentSettings.opacity = opacity]
                                  ELSE Customization
        /\ appearance' = IF ok THEN [appearance EXCEPT ![model].opacity = opacity] ELSE appearance
        /\ last' = [op |-> "opacity", value |-> opacity, ret |-> ok]
  /\ UNCHANGED <<app, PoseDetection, ModelLoader, ClothingFit, SceneManager, objects, timers, loads>>

\* the size slider input with a transform write added:
\* model.scale.multiplyScalar(size)
SizeInputScalesModel(size) ==
  /\ app.isInitialized
  /\ Event
  /\ LET model == ModelLoader.currentModel
         ok == model # "null" /\ SizeAccepted(size)
     IN /\ app' = [app EXCEPT !.sizeSlider = size]
        /\ Customization' = IF ok THEN [Customization EXCEPT !.currentSettings.size = StoredSize(size)]
                                  ELSE Customization
        /\ appearance' = IF ok THEN [appearance EXCEPT ![model].sizeAdjustment = StoredSize(size)]
                               ELSE appearance
        /\ objects' = IF ok THEN [objects EXCEPT ![model].scale =
                                    ScaleVector(@.x, @.y, @.z, StoredSize(size))]
                            ELSE objects
        /\ last' = [op |-> "size", value |-> size, ret |-> ok]
  /\ UNCHANGED <<PoseDetection, ModelLoader, ClothingFit, SceneManager, timers, loads>>

\* input on the size slider, whose value the next onPoseDetected reads:
\* Customization.applySizeAdjustment(currentModel, size)
SizeInput(size) ==
  /\ app.isInitialized
  /\ Event
  /\ LET model == ModelLoader.currentModel
         ok == model # "null" /\ SizeAccepted(size)
     IN /\ app' = [app EXCEPT !.sizeSlider = size]
        /\ Customization' = IF ok THEN [Customization EXCEPT !.currentSettings.size = StoredSize(size)]
                                  ELSE Customization
        /\ appearance' = IF ok THEN [appearance EXCEPT ![model].sizeAdjustment = StoredSize(size)]
                               ELSE appearance
        /\ last' = [op |-> "size", value |-> size, ret |-> ok]
  /\ UNCHANGED <<PoseDetection, ModelLoader, ClothingFit, SceneManager, objects, timers, loads>>

\* SceneManager.animate(): one frame of the render loop.  It calls onRender
\* (stats.update()) and renders; the canvas is not part of the state.
Render ==
  /\ SceneManager.isAnimating
  /\ Event
  /\ last' = [op |-> "render"]
  /\ UNCHANGED <<app, PoseDetection, ModelLoader, ClothingFit, SceneManager, objects, timers,
                 loads, Customization, appearance>>

\* onWindowResize(): SceneManager.resize(width, height) sets the camera's
\* aspect and the renderer's size, which are not part of the state
Resize ==
  /\ app.isInitialized
  /\ Event
  /\ last' = [op |-> "resize", ret |-> SceneManager.isInitialized]
  /\ UNCHANGED <<app, PoseDetection, ModelLoader, ClothingFit, SceneManager, objects, timers,
                 loads, Customization, appearance>>

\* takeScreenshot(): renders once more and reads the canvas
Screenshot ==
  /\ app.isInitialized
  /\ Event
  /\ last' = [op |-> "screenshot", ret |-> app.isRunning]
  /\ UNCHANGED <<app, PoseDetection, ModelLoader, ClothingFit, SceneManager, objects, timers,
                 loads, Customization, appearance>>

\* the frames the pose handler is given in a session with the user interface
UiPoses == {"TPose", "Truncated"}

\* the session with its user interface: requests, model changes,
\* customization, calibration timers, rendering, and the frames of the pose
\* handler
NextUi ==
  \/ Initialize
  \/ \E cameraOk, poseOk \in BOOLEAN : Start(cameraOk, poseOk)
  \/ \E productType \in ProductTypes, cameraOk, poseOk \in BOOLEAN :
        StartWithProduct(productType, cameraOk, poseOk)
  \/ \E i \in 1..MaxLoads, ok \in BOOLEAN : LoadDone(i, ok)
  \/ Stop
  \/ OpenModelSelection
  \/ \E name \in UiPoses : CallOnPoseDetected(name)
  \/ Calibrate
  \/ \E i \in 1..MaxAttempts : Poll(i)
  \/ \E i \in 1..MaxAttempts : Timeout(i)
  \/ \E color \in ColorChoices : ColorClick(color)
  \/ \E texture \in TextureChoices : TextureClick(texture)
  \/ \E opacity \in OpacityValues : OpacityInput(opacity)
  \/ \E size \in SizeValues : SizeInput(size)
  \/ Render
  \/ Resize
  \/ Screenshot

SpecUi == Init /\ [][NextUi]_vars

-----------------------------------------------------------------------------
(* ClothingFit driven frame by frame: updateModelFit with its default options
   (modelType 'tshirt', sizeAdjustment 1.0) on the loaded model, and
   setSmoothingFactor *)

\* frames a run is given
MaxFrames == 3

\* the shoulder widths of the frames, in cm; 0 stands for the frame with all
\* landmarks at one point
Widths == {0, 60, 62}
\* the growth of the shoulder width from one frame of a slowly widening
\* sequence to the next, in cm
WidthStep == 2

FrameLandmarks(w) == IF w = 0 THEN Collapsed ELSE Widened(w)

\* the arguments given to setSmoothingFactor, in hundredths
Factors == {-50, 0, 50, 100, 150}

\* ClothingFit.setSmoothingFactor(factor)
CallSetSmoothingFactor(factor) ==
  /\ oracle.calls < MaxCalls
  /\ oracle' = [oracle EXCEPT !.calls = @ + 1]
  /\ ClothingFit' = setSmoothingFactor(ClothingFit, factor)
  /\ last' = [op |-> "setSmoothingFactor", factor |-> factor]
  /\ UNCHANGED <<app, PoseDetection, ModelLoader, SceneManager, objects, timers, loads,
                 Customization, appearance>>

\* ClothingFit.updateModelFit(ModelLoader.currentModel, keypoints,
\*   ModelLoader.getBaseMeasurements()) for the next frame.  "run" counts the
\* frames of the slowly widening sequence that began with the model's first
\* frame and ends with this one.
Frame(w) ==
  /\ oracle.delivered < MaxFrames
  /\ oracle' = [oracle EXCEPT !.delivered = @ + 1]
  /\ LET model == ModelLoader.currentModel
         keypoints == FrameLandmarks(w)
         base == getBaseMeasurements(ModelLoader)
         fit == FitLog(model, keypoints, base, "tshirt", Unit)
     IN /\ updateModelFit(model, keypoints, base, "tshirt", Unit)
        /\ last' = [op |-> "frame", width |-> w, fit |-> fit,
                    run |-> IF ~fit.ran \/ w = 0 THEN 0
                            ELSE IF fit.first THEN 1
                            ELSE IF last.op = "frame" /\ last.run > 0
                                    /\ w = last.width + WidthStep THEN last.run + 1
                            ELSE 0]
  /\ UNCHANGED <<app, PoseDetection, ModelLoader, SceneManager, timers, loads,
                 Customization, appearance>>

NextSolver ==
  \/ Initialize
  \/ \E cameraOk, poseOk \in BOOLEAN : Start(cameraOk, poseOk)
  \/ \E i \in 1..MaxLoads, ok \in BOOLEAN : LoadDone(i, ok)
  \/ \E factor \in Factors : CallSetSmoothingFactor(factor)
  \/ \E w \in Widths : Frame(w)

SpecSolver == Init /\ [][NextSolver]_vars

-----------------------------------------------------------------------------
(* The smoothing of updateModelFit on its own, fed one target again and again.
   It is linear, so the unit of its numbers is free; here positions are in
   thousandths of a millimetre and scales in millionths, fine enough to follow
   fifty steps. *)

\* calls of the smoothing in a run
MaxSmoothCalls == 50

\* 1.0 as a scale, in millionths
FineUnit == 10^6

\* a freshly loaded gltf.scene in these units
FineNewObject ==
  [position |-> Zero3, rotation |-> IdentityQ, scale |-> Vec(FineUnit, FineUnit, FineUnit)]

\* the targets: positions up to a metre from the model's, scales between 0.5
\* and 1.9, some components equal to the model's
SmoothTargets ==
  {[position |-> Vec(0, 300000, 0), rotation |-> IdentityQ,
    scale |-> Vec(1500000, 1000000, 1250000)],
   [position |-> Vec(-1000000, 450000, 20000), rotation |-> IdentityQ,
    scale |-> Vec(500000, 1900000, 1200000)],
   [position |-> Vec(123457, -777777, 999999), rotation |-> IdentityQ,
    scale |-> Vec(1000000, 960000, 980000)]}

\* the session after start() has loaded the tshirt model, and the target the
\* frames to come will aim at
InitSmooth ==
  /\ app = [isInitialized |-> TRUE, isRunning |-> TRUE, isCalibrated |-> FALSE,
            currentModelType |-> "tshirt", sizeSlider |-> Unit, cameraReady |-> TRUE,
            status |-> "Ready", guideHidden |-> TRUE]
  /\ PoseDetection = [isInitialized |-> TRUE, isRunning |-> FALSE, camera |-> "null",
                      onPoseCallback |-> "onPoseDetected", onPoseDetectedCallback |-> "null"]
  /\ ModelLoader = [baseMeasurements |-> DefaultBaseMeasurements, currentModel |-> "tshirt",
                    models |-> {"tshirt"}]
  /\ ClothingFit = [smoothingFactor |-> DefaultSmoothingFactor, previousTransforms |-> EmptyMap,
                    userMeasurements |-> ZeroMeasurements, isCalibrated |-> FALSE,
                    fitQuality |-> ZeroFitQuality]
  /\ SceneManager = [isInitialized |-> TRUE, isAnimating |-> TRUE, children |-> {"tshirt"}]
  /\ objects = [u \in {"tshirt"} |-> FineNewObject]
  /\ timers = <<>>
  /\ oracle = [results |-> NoResults, delivered |-> 0, calls |-> 0, events |-> 0,
               changes |-> 0]
  /\ loads = <<>>
  /\ Customization = [currentSettings |-> DefaultSettings]
  /\ appearance = [u \in {"tshirt"} |-> Applied(DefaultSettings)]
  /\ \E target \in SmoothTargets : last = [op |-> "target", target |-> target, calls |-> 0]

\* updateModelFit from "Apply smoothing" to the copies into previousTransform,
\* for the constant target
SmoothStep ==
  /\ last.calls < MaxSmoothCalls
  /\ LET model == ModelLoader.currentModel
         applied == Smooth(objects[model], last.target, ClothingFit.smoothingFactor)
     IN /\ objects' = [objects EXCEPT ![model] = applied]
        /\ ClothingFit' = [ClothingFit EXCEPT !.previousTransforms =
                             [u \in DOMAIN @ \cup {model} |-> IF u = model THEN applied ELSE @[u]]]
  /\ last' = [op |-> "smooth", target |-> last.target, calls |-> last.calls + 1]
  /\ UNCHANGED <<app, PoseDetection, ModelLoader, SceneManager, timers, oracle, loads,
                 Customization, appearance>>

NextSmooth == SmoothStep

SpecSmooth == InitSmooth /\ [][NextSmooth]_vars

-----------------------------------------------------------------------------
(* calculateQualityScore on its own *)

\* the ratios, in thousandths: below, at the ends of, inside and above the
\* bands, far outside them, and the quotient of a division by zero
Ratios == {50 * k : k \in 0..40} \cup {-200, 849, 851, 899, 901, 1099, 1101, 5000, Infinity}

\* the bands calculateFitQuality uses: fitted garments and jackets
Bands == {<<900, 1100>>, <<850, 1050>>}

InitScore ==
  /\ Constructed
  /\ \E ratio \in Ratios, band \in Bands :
        last = [op |-> "ratio", ratio |-> ratio, minIdeal |-> band[1], maxIdeal |-> band[2]]

\* ClothingFit.calculateQualityScore(ratio, minIdeal, maxIdeal)
CallCalculateQualityScore ==
  /\ last.op = "ratio"
  /\ last' = [op |-> "calculateQualityScore", ratio |-> last.ratio,
              minIdeal |-> last.minIdeal, maxIdeal |-> last.maxIdeal,
              ret |-> calculateQualityScore(last.ratio, last.minIdeal, last.maxIdeal)]
  /\ UNCHANGED <<app, PoseDetection, ModelLoader, ClothingFit, SceneManager, objects, timers,
                 oracle, loads, Customization, appearance>>

NextScore == CallCalculateQualityScore

SpecScore == InitScore /\ [][NextScore]_vars

-----------------------------------------------------------------------------
(* Calibration requests that overlap: the calibrate button pressed again
   while the timers of an earlier request are pending *)

\* calibration requests of a session
MaxOverlap == 2

NextTimers ==
  \/ Initialize
  \/ \E cameraOk, poseOk \in BOOLEAN : Start(cameraOk, poseOk)
  \/ \E i \in 1..MaxLoads, ok \in BOOLEAN : LoadDone(i, ok)
  \/ Stop
  \/ CalibrateWithin(MaxOverlap)
  \/ \E i \in 1..MaxOverlap : Poll(i)
  \/ \E i \in 1..MaxOverlap : Timeout(i)

SpecTimers == Init /\ [][NextTimers]_vars

\* the timers of the browser fire: a callback that is due is run
TimersFire == \A i \in 1..MaxOverlap : WF_vars(Poll(i)) /\ WF_vars(Timeout(i))

SpecTimersFair == Init /\ [][NextTimers]_vars /\ TimersFire

-----------------------------------------------------------------------------
(* The fit of the upper-body garments: updateModelFit on the loaded model
   with a T-pose of shoulder width 0.40 or 0.44, after setSmoothingFactor *)

\* the poses of the frames and the categories they are fitted as
FitPoses == {"TPose", "TPoseWide"}
UpperBodyTypes == {"tshirt", "shirt", "jacket", "hoodie"}

\* the arguments given to setSmoothingFactor, in hundredths
FitFactors == {0, 50}

NextFit ==
  \/ Initialize
  \/ \E cameraOk, poseOk \in BOOLEAN : Start(cameraOk, poseOk)
  \/ \E i \in 1..MaxLoads, ok \in BOOLEAN : LoadDone(i, ok)
  \/ \E factor \in FitFactors : CallSetSmoothingFactor(factor)
  \/ \E name \in FitPoses, modelType \in UpperBodyTypes : CallUpdateModelFit(name, modelType)

SpecFit == Init /\ [][NextFit]_vars

-----------------------------------------------------------------------------
(* extractKeypoints3D on its own *)

\* the arrays a pose result can carry in either place
ArrayNames == PoseNames \cup {"Unseen", "absent"}

InitExtract ==
  /\ Constructed
  /\ \E image, world \in ArrayNames : last = [op |-> "results", results |-> Results(image, world)]

\* PoseDetection.extractKeypoints3D(results)
CallExtractKeypoints3D ==
  /\ last.op = "results"
  /\ last' = IF extractKeypoints3DThrows(last.results)
               THEN [op |-> "extractKeypoints3D", results |-> last.results, threw |-> TRUE]
               ELSE [op |-> "extractKeypoints3D", results |-> last.results, threw |-> FALSE,
                     ret |-> extractKeypoints3D(last.results)]
  /\ UNCHANGED <<app, PoseDetection, ModelLoader, ClothingFit, SceneManager, objects, timers,
                 oracle, loads, Customization, appearance>>

NextExtract == CallExtractKeypoints3D

SpecExtract == InitExtract /\ [][NextExtract]_vars

-----------------------------------------------------------------------------
(* Properties *)

\* the three values a calibration commits
Committed ==
  [ClothingFit |-> ClothingFit.isCalibrated, app |-> app.isCalibrated,
   baseMeasurements |-> ModelLoader.baseMeasurements]

\* C1: a ClothingFit.calibrate call that returns false (too few landmarks, or
\* the T-pose gate not passed) leaves ClothingFit.isCalibrated and the
\* committed userMeasurements as they were before the call.
C1_FailedCalibrateKeepsState ==
  (last.op = "ClothingFit.calibrate" /\ ~last.ret) =>
     /\ ClothingFit.isCalibrated = last.before.isCalibrated
     /\ ClothingFit.userMeasurements = last.before.userMeasurements

\* a failed calibrate call made after an earlier call had committed a calibration
C1_Witness ==
  /\ last.op = "ClothingFit.calibrate"
  /\ ~last.ret
  /\ last.keypoints = "ArmsDown"
  /\ ClothingFit.isCalibrated
  /\ ClothingFit.userMeasurements.shoulderWidth > 0

\* stop() has run since every calibration attempt was requested
StopRequested == Len(timers) > 0 /\ \A i \in 1..Len(timers) : timers[i].stopped

\* C2: once stop() has run, and until a new calibration is requested, no step
\* (in particular no poll of an attempt started before the stop) changes
\* ClothingFit.isCalibrated, the app's isCalibrated or ModelLoader.baseMeasurements.
C2_NoCommitAfterStop == [][StopRequested => Committed' = Committed]_vars

\* a poll of an attempt fired after stop(), with a T-pose as the latest frame
C2_Witness ==
  /\ last.op = "poll"
  /\ timers[last.attempt].stopped
  /\ ~app.isRunning
  /\ calibrateResult(extractKeypoints3D(oracle.results))

\* C3: a poll that fires before the timeout while the latest delivered frame
\* holds 33 landmarks in a T-pose returns true and commits the calibration.
C3_PollUsesLatestFrame ==
  (/\ last.op = "poll"
   /\ ~last.afterTimeout
   /\ calibrateResult(extractKeypoints3D(oracle.results)))
  => (last.ret /\ app.isCalibrated /\ ClothingFit.isCalibrated)

\* C4: after stop() has ended a session the smoother holds no entry and the
\* garment models carry no transform of that session.
C4_StopResetsSmoother ==
  (last.op = "stop" /\ last.ret) =>
     /\ ClothingFit.previousTransforms = EmptyMap
     /\ \A u \in DOMAIN objects : objects[u] = NewObject

\* C5: after the first updateModelFit call for a model (no entry in
\* previousTransforms yet) the model carries exactly the target transform.
C5_FirstFrameUnsmoothed ==
  (/\ last.op \in {"updateModelFit", "onPoseDetected"}
   /\ last.fit.ran
   /\ last.fit.first)
  => objects[last.fit.model] = last.fit.target

\* the base measurements updateModelFit divides by, per category
Divisors(modelType) ==
  CASE modelType \in {"tshirt", "shirt", "jacket", "hoodie"} -> {"shoulderWidth", "torsoLength"}
    [] modelType = "pants" -> {"hipWidth", "legLength"}
    [] OTHER -> {}

\* C6: before any calibration has succeeded, every base measurement that a
\* solve divides by for its category is defined and non-zero.
C6_DefaultDivisorsDefined ==
  (/\ last.op = "updateModelFit"
   /\ last.fit.ran
   /\ ~app.isCalibrated)
  => \A f \in Divisors(last.fit.modelType) :
        /\ f \in DOMAIN last.fit.baseMeasurements
        /\ last.fit.baseMeasurements[f] # 0

\* C7: a calibration that succeeds never commits a zero shoulderWidth,
\* torsoLength, hipWidth or legLength.
C7_CalibrationCommitsNonZero ==
  (last.op = "ClothingFit.calibrate" /\ last.ret) =>
     \A f \in {"shoulderWidth", "torsoLength", "hipWidth", "legLength"} :
        ClothingFit.userMeasurements[f] # 0

\* C8: no poll of an attempt runs after that attempt's timeout has fired or
\* after one of its polls has succeeded.
C8_PollsWithinBudget ==
  last.op = "poll" => (~last.afterTimeout /\ ~last.afterSuccess)

\* an attempt whose timeout has fired after its polls
C8_Witness ==
  /\ last.op = "timeout"
  /\ timers[last.attempt].timedOut
  /\ ~timers[last.attempt].interval
  /\ timers[last.attempt].polls >= PollsPerBudget - 1

\* C9: when an attempt times out without any of its polls having passed, the
\* three committed values are those of the moment the attempt was requested.
C9_TimeoutKeepsCalibration ==
  (last.op = "timeout" /\ ~timers[last.attempt].succeeded) =>
     Committed = timers[last.attempt].requested

\* an attempt that timed out after polling with no success, a T-pose being
\* the latest frame
C9_Witness ==
  /\ last.op = "timeout"
  /\ ~timers[last.attempt].succeeded
  /\ timers[last.attempt].polls > 0
  /\ calibrateResult(extractKeypoints3D(oracle.results))

\* C10: for every pose result with poseLandmarks delivered after
\* PoseDetection.initialize succeeded, onResults invokes the registered
\* callback exactly once (and so the pipeline runs when the session is
\* running with a model loaded).
C10_CallbackOncePerResult ==
  (/\ last.op = "onResults"
   /\ last.results.poseLandmarks # "absent"
   /\ PoseDetection.onPoseCallback = "onPoseDetected")
  => last.callbacks = 1

\* the arm and torso vectors of a gate input, in the axes of THREE (y and z
\* of a landmark are sign-flipped)
ArmVector(offset, side) == Vec(side * offset.x, -offset.y, -offset.z)
TorsoVector(tilt) == Vec(tilt, 60, 0)

\* |a . t| / (|a| |t|) < 0.3, on the vectors as they are; the dot product
\* with a vector of length zero counts as 0
CosineBelowThreshold(a, t) ==
  IF lengthSq(a) = 0 \/ lengthSq(t) = 0 THEN TRUE
  ELSE 100 * dot(a, t) * dot(a, t) < 9 * lengthSq(a) * lengthSq(t)

Perpendicular(a, t) == lengthSq(a) > 0 /\ dot(a, t) = 0
Parallel(a, t) == lengthSq(a) > 0 /\ lengthSq(crossVectors(a, t)) = 0

\* C11: on a 33-entry landmark set checkTpose, and with it calibrate, returns
\* true exactly when for both arms the absolute dot product of the unit
\* shoulder-to-wrist vector and the unit hip-to-shoulder vector is strictly
\* below 0.3; true when both arms are perpendicular to the torso axis, false
\* when an arm is parallel to it.
C11_GateIsThreshold ==
  last.op = "checkTpose" =>
     LET left == ArmVector(last.la, 1)
         right == ArmVector(last.ra, -1)
         torso == TorsoVector(last.tilt)
     IN /\ last.length = NumLandmarks
        /\ last.ret <=> (CosineBelowThreshold(left, torso) /\ CosineBelowThreshold(right, torso))
        /\ last.calibrated <=> last.ret
        /\ ClothingFit.isCalibrated <=> last.ret
        /\ (Perpendicular(left, torso) /\ Perpendicular(right, torso)) => last.ret
        /\ (Parallel(left, torso) \/ Parallel(right, torso)) => ~last.ret

\* a leaning torso with both arms perpendicular to it passes the gate
C11_Witness ==
  /\ last.op = "checkTpose"
  /\ last.tilt = 20
  /\ Perpendicular(ArmVector(last.la, 1), TorsoVector(last.tilt))
  /\ Perpendicular(ArmVector(last.ra, -1), TorsoVector(last.tilt))
  /\ last.ret
  /\ ClothingFit.isCalibrated

\* C12: the position, quaternion and scale of a model object change only in
\* a step of updateModelFit on that object: no calibration poll or timeout, no
\* color, texture, opacity or size customization, no rendered frame, resize or
\* screenshot, and no start, stop or change of the garment writes them.  (A
\* successful load puts a new object, with the transform of a fresh
\* gltf.scene, in the place of the garment's entry.)
C12_OnlyFitWritesTransform ==
  [][\A u \in DOMAIN objects :
        objects'[u] # objects[u] =>
          \/ /\ last'.op = "onPoseDetected"
             /\ last'.fit.ran
             /\ last'.fit.model = u
          \/ /\ last'.op = "loadModel"
             /\ last'.ret
             /\ last'.model = u
             /\ objects'[u] = NewObject]_vars

\* the size slider was moved in a running session on a model that updateModelFit
\* has placed; the model still carries the transform of that fit
C12_Witness ==
  /\ last.op = "size"
  /\ last.ret
  /\ app.isRunning
  /\ ModelLoader.currentModel \in DOMAIN ClothingFit.previousTransforms
  /\ objects[ModelLoader.currentModel] = ClothingFit.previousTransforms[ModelLoader.currentModel]
  /\ objects[ModelLoader.currentModel] # NewObject
  /\ appearance[ModelLoader.currentModel].sizeAdjustment = StoredSize(last.value)

\* C13: ModelLoader.baseMeasurements change only in a step of the calibration
\* interval in which ClothingFit.calibrate returned true; pose callbacks,
\* failed polls, timeouts, changes of the garment, stop and start leave them
\* as they are.
C13_BaseMeasurementsOnlyByCalibration ==
  [][ModelLoader'.baseMeasurements # ModelLoader.baseMeasurements =>
        /\ last'.op = "poll"
        /\ last'.ret
        /\ ClothingFit'.isCalibrated
        /\ ModelLoader'.baseMeasurements.shoulderWidth = ClothingFit'.userMeasurements.shoulderWidth]_vars

\* a calibration attempt has timed out after a failed poll, with a model
\* loaded and the user measured by a frame: the base measurements are the
\* constructor's
C13_Witness ==
  /\ last.op = "timeout"
  /\ timers[last.attempt].polls > 0
  /\ ~timers[last.attempt].succeeded
  /\ ModelLoader.currentModel # "null"
  /\ ClothingFit.userMeasurements.shoulderWidth > 0
  /\ ClothingFit.userMeasurements # DefaultBaseMeasurements
  /\ ModelLoader.baseMeasurements = DefaultBaseMeasurements

\* C14: a call of updateModelFit with fewer than 33 landmarks, or without a
\* model, completes and changes nothing: not the position, rotation and scale
\* of any model, not previousTransforms, userMeasurements or fitQuality.
C14_ShortFrameChangesNothing ==
  [][(/\ last'.op = "updateModelFit"
      /\ \/ Len(Landmarks(last'.keypoints)) < NumLandmarks
         \/ ModelLoader.currentModel = "null") =>
        /\ ~last'.fit.ran
        /\ objects' = objects
        /\ ClothingFit'.previousTransforms = ClothingFit.previousTransforms
        /\ ClothingFit'.userMeasurements = ClothingFit.userMeasurements
        /\ ClothingFit'.fitQuality = ClothingFit.fitQuality
        /\ ClothingFit' = ClothingFit]_vars

\* a truncated frame arrived after a frame that placed the model: the model,
\* the measurements and the scores are those of the earlier frame
C14_Witness ==
  /\ last.op = "updateModelFit"
  /\ last.keypoints = "Truncated"
  /\ ~last.fit.ran
  /\ ModelLoader.currentModel \in DOMAIN ClothingFit.previousTransforms
  /\ objects[ModelLoader.currentModel] = ClothingFit.previousTransforms[ModelLoader.currentModel]
  /\ objects[ModelLoader.currentModel] # NewObject
  /\ ClothingFit.userMeasurements.shoulderWidth > 0
  /\ ClothingFit.fitQuality # ZeroFitQuality

\* C15: ClothingFit.smoothingFactor is in [0,1] in every state: it is 0.8
\* after construction, and setSmoothingFactor(f) stores 0 for f < 0, 1 for
\* f > 1 and f otherwise.
C15_SmoothingFactorInUnitInterval ==
  /\ ClothingFit.smoothingFactor >= 0
  /\ ClothingFit.smoothingFactor <= 100
  /\ last.op = "constructor" => ClothingFit.smoothingFactor = 80
  /\ last.op = "setSmoothingFactor" =>
        ClothingFit.smoothingFactor = IF last.factor < 0 THEN 0
                                      ELSE IF last.factor > 100 THEN 100
                                      ELSE last.factor

\* setSmoothingFactor(1.5) was called after a frame had placed the model, and
\* 1 is stored
C15_Witness ==
  /\ last.op = "setSmoothingFactor"
  /\ last.factor = 150
  /\ ClothingFit.smoothingFactor = 100
  /\ ModelLoader.currentModel \in DOMAIN ClothingFit.previousTransforms

\* the six numbers of a transform that the smoothing interpolates linearly
Numbers(transform) ==
  <<transform.position.x, transform.position.y, transform.position.z,
    transform.scale.x, transform.scale.y, transform.scale.z>>

\* C16: with one target fed again and again and smoothing factor 0.8, every
\* call moves each position and scale component to previous + 0.2 * (target -
\* previous) (to the unit below it); its distance to the target never grows, it
\* never passes the target, and after 50 calls the distance is below 1/1000 of
\* the distance at the start.
C16_SmootherConverges ==
  [][last'.op = "smooth" =>
       \A k \in 1..6 :
          LET target == Numbers(last'.target)[k]
              initial == Numbers(FineNewObject)[k]
              previous == Numbers(objects[ModelLoader.currentModel])[k]
              applied == Numbers(objects'[ModelLoader.currentModel])[k]
          IN /\ 5 * (applied - previous) <= target - previous
             /\ target - previous < 5 * (applied - previous) + 5
             /\ Abs(target - applied) <= Abs(target - previous)
             /\ previous <= target => applied <= target
             /\ previous >= target => applied >= target
             /\ last'.calls >= 50 =>
                   \/ target = initial /\ applied = target
                   \/ 1000 * Abs(target - applied) < Abs(target - initial)]_vars

\* fifty calls have been made towards a target that differs from the fresh
\* model in position and in scale
C16_Witness ==
  /\ last.op = "smooth"
  /\ last.calls = 50
  /\ ClothingFit.smoothingFactor = 80
  /\ last.target.position.x = -1000000
  /\ last.target.scale.y = 1900000
  /\ 1000 * Abs(last.target.scale.y - objects["tshirt"].scale.y) < 900000
  /\ ClothingFit.previousTransforms["tshirt"] = objects["tshirt"]

\* C17: on every frame after the first of a sequence of frames whose shoulder
\* width grows slowly, the x-scale of the model changes by less than the
\* x-scale of the target does (smoothing factor 0.8).
C17_SmoothedScaleChangesLess ==
  [][(/\ last.op = "frame"
      /\ last'.op = "frame"
      /\ last'.run >= 2
      /\ ClothingFit.smoothingFactor = DefaultSmoothingFactor) =>
        Abs(objects'[last'.fit.model].scale.x - objects[last'.fit.model].scale.x)
          < Abs(last'.fit.target.scale.x - last.fit.target.scale.x)]_vars

\* C18: calculateQualityScore(ratio, min, max) is 1.0 for min <= ratio <= max,
\* both ends included, and max(0, 1 - 2 * d) otherwise, d being how far the
\* ratio lies outside the band; for the band [0.9, 1.1] the ratios 0.9 and 1.1
\* score 1.0 and the ratio 1.2 scores 0.8.
C18_ScoreOfBand ==
  last.op = "calculateQualityScore" =>
     LET d == IF last.ratio < last.minIdeal THEN last.minIdeal - last.ratio
              ELSE last.ratio - last.maxIdeal
     IN /\ (last.minIdeal <= last.ratio /\ last.ratio <= last.maxIdeal) => last.ret = 1000
        /\ (last.ratio < last.minIdeal \/ last.ratio > last.maxIdeal) =>
              last.ret = IF 2 * d >= 1000 THEN 0 ELSE 1000 - 2 * d
        /\ (last.minIdeal = 900 /\ last.maxIdeal = 1100) =>
              /\ last.ratio = 900 => last.ret = 1000
              /\ last.ratio = 1100 => last.ret = 1000
              /\ last.ratio = 1200 => last.ret = 800

\* the ratio 1.1, the upper end of the fitted band, scored 1.0
C18_Witness ==
  /\ last.op = "calculateQualityScore"
  /\ last.minIdeal = 900
  /\ last.maxIdeal = 1100
  /\ last.ratio = 1100
  /\ last.ret = 1000

\* the components of this.fitQuality
Components == {"overall", "shoulders", "torso", "arms", "legs"}

\* C19: every component of ClothingFit.fitQuality is a number in [0,1] in
\* every state, also when a scale component of the model is 0, and after a
\* scored frame of a tshirt overall is 0.6 shoulders + 0.4 torso.
C19_FitQualityInUnitInterval ==
  /\ \A c \in Components :
        /\ ClothingFit.fitQuality[c] # NaN
        /\ ClothingFit.fitQuality[c] >= 0
        /\ ClothingFit.fitQuality[c] <= Unit
  /\ (last.op = "frame" /\ last.fit.ran) =>
        LET q == ClothingFit.fitQuality
        IN /\ 10 * q.overall <= 6 * q.shoulders + 4 * q.torso
           /\ 6 * q.shoulders + 4 * q.torso < 10 * q.overall + 10

\* the garment categories updateModelFit has a case for
KnownCategories == {"tshirt", "shirt", "jacket", "hoodie", "pants"}

\* C20: for a category other than tshirt, shirt, jacket, hoodie and pants
\* (such as 'hat', which startWithProduct stores for the product 'cap')
\* updateModelFit completes and aims at the generic fallback: the position of
\* the shoulder midpoint, the identity rotation, and the size adjustment as
\* scale on all three axes.
C20_UnknownCategoryFallsBack ==
  (last.op = "onPoseDetected" /\ ~PoseIgnored /\ ~TooFew(Landmarks(last.keypoints))
     /\ app.currentModelType \notin KnownCategories) =>
     LET leftShoulder == Landmarks(last.keypoints)[12]
         rightShoulder == Landmarks(last.keypoints)[13]
         target == last.fit.target
     IN /\ last.fit.ran
        /\ last.fit.modelType = app.currentModelType
        /\ 2 * target.position.x = leftShoulder.x + rightShoulder.x
        /\ 2 * target.position.y = -(leftShoulder.y + rightShoulder.y)
        /\ 2 * target.position.z = -(leftShoulder.z + rightShoulder.z)
        /\ target.rotation = IdentityQ
        /\ target.scale = Vec(app.sizeSlider, app.sizeSlider, app.sizeSlider)
        /\ ModelLoader.currentModel \in DOMAIN ClothingFit.previousTransforms
        /\ objects[ModelLoader.currentModel] = ClothingFit.previousTransforms[ModelLoader.currentModel]

\* the product 'cap' was chosen while a shirt was loaded, the size slider was
\* moved, and a frame has been fitted with the category 'hat'
C20_Witness ==
  /\ last.op = "onPoseDetected"
  /\ last.fit.ran
  /\ last.fit.modelType = "hat"
  /\ app.currentModelType = "hat"
  /\ app.sizeSlider = 1200
  /\ last.fit.target.scale = Vec(1200, 1200, 1200)
  /\ last.fit.target.position = Vec(0, 60, 0)

\* C21: ClothingFit.isCalibrated is false after construction, becomes true
\* only in a step of calibrate on a 33-entry landmark set that passes the
\* T-pose gate, a step that also overwrites userMeasurements with the
\* measurements of that landmark set, and never returns to false.
C21_CalibratedOnlyByGate ==
  /\ ~ClothingFit.isCalibrated
  /\ [][/\ ClothingFit.isCalibrated => ClothingFit'.isCalibrated
        /\ (~ClothingFit.isCalibrated /\ ClothingFit'.isCalibrated) =>
              /\ last'.op = "ClothingFit.calibrate"
              /\ Len(Landmarks(last'.keypoints)) = NumLandmarks
              /\ checkTpose(Landmarks(last'.keypoints))
        /\ (last'.op = "ClothingFit.calibrate" /\ last'.ret) =>
              /\ ClothingFit'.isCalibrated
              /\ ClothingFit'.userMeasurements = ExtractMeasurements(Landmarks(last'.keypoints))]_vars

\* calibrate succeeded for the first time, on the broader T-pose, and replaced
\* the measurements an earlier frame had left
C21_Witness ==
  /\ last.op = "ClothingFit.calibrate"
  /\ last.ret
  /\ last.keypoints = "TPoseWide"
  /\ ~last.before.isCalibrated
  /\ last.before.userMeasurements.shoulderWidth = 40
  /\ ClothingFit.isCalibrated
  /\ ClothingFit.userMeasurements.shoulderWidth = 44

\* C22: extractKeypoints3D returns the empty sequence when poseLandmarks or
\* poseWorldLandmarks is absent; when both are present it returns a sequence
\* of the length of poseWorldLandmarks whose entry i has x, y, z of
\* poseWorldLandmarks[i] and the visibility of poseLandmarks[i], 0 when that
\* is missing.
C22_PairsIndexForIndex ==
  last.op = "extractKeypoints3D" =>
     /\ ~last.threw
     /\ IF last.results.poseLandmarks = "absent" \/ last.results.poseWorldLandmarks = "absent"
          THEN last.ret = <<>>
          ELSE LET image == Landmarks(last.results.poseLandmarks)
                   world == Landmarks(last.results.poseWorldLandmarks)
               IN /\ Len(last.ret) = Len(world)
                  /\ \A i \in 1..Len(world) :
                        /\ last.ret[i].x = world[i].x
                        /\ last.ret[i].y = world[i].y
                        /\ last.ret[i].z = world[i].z
                        /\ last.ret[i].visibility =
                              IF i <= Len(image) /\ "visibility" \in DOMAIN image[i]
                                THEN image[i].visibility ELSE 0

\* C23: with a base shoulderWidth of 0.4, a live shoulder width of 0.44 and
\* sizeAdjustment 1.0 the target x-scale of a tshirt or shirt is 1.1 and that
\* of a jacket or hoodie 1.1 * 1.1; when the x-scale applied to a tshirt or
\* shirt equals the target, the shoulders score is 1.0.
C23_FittedShirtScoresOne ==
  (/\ last.op = "updateModelFit" /\ last.fit.ran /\ last.keypoints = "TPoseWide"
   /\ Measure(last.fit.baseMeasurements, "shoulderWidth") = 40
   /\ app.sizeSlider = Unit) =>
     /\ ClothingFit.userMeasurements.shoulderWidth = 44
     /\ last.fit.modelType \in {"tshirt", "shirt"} => last.fit.target.scale.x = 1100
     /\ last.fit.modelType \in {"jacket", "hoodie"} => last.fit.target.scale.x = 1210
     /\ (/\ last.fit.modelType \in {"tshirt", "shirt"}
         /\ objects[last.fit.model].scale.x = last.fit.target.scale.x) =>
           ClothingFit.fitQuality.shoulders = Unit
C23_Witness ==
  /\ last.op = "updateModelFit" /\ last.fit.ran /\ last.keypoints = "TPoseWide"
  /\ Measure(last.fit.baseMeasurements, "shoulderWidth") = 40
  /\ last.fit.modelType = "tshirt" /\ last.fit.target.scale.x = 1100
  /\ objects[last.fit.model].scale.x = 1100
  /\ ClothingFit.fitQuality.shoulders = Unit

\* C24: a call of onPoseDetected while app.isRunning is false does not reach
\* updateModelFit and leaves the model transforms and ClothingFit
\* (userMeasurements, fitQuality, previousTransforms) as they were.
C24_NoFitWhileStopped ==
  [][(last'.op = "onPoseDetected" /\ ~app.isRunning) =>
        /\ ~last'.fit.ran
        /\ objects' = objects
        /\ ClothingFit' = ClothingFit]_vars
C24_Witness ==
  /\ last.op = "onPoseDetected" /\ ~last.fit.ran /\ last.keypoints = "TPoseWide"
  /\ ~app.isRunning
  /\ ModelLoader.currentModel # "null"
  /\ ModelLoader.currentModel \in DOMAIN ClothingFit.previousTransforms
  /\ ClothingFit.userMeasurements.shoulderWidth = 40

\* the calibration attempts whose 500 ms interval is active
Polling == {i \in 1..Len(timers) : timers[i].interval}

\* C25: at most one calibration attempt is polling at any time; a call of
\* calibrate() while the interval of an earlier attempt is active creates no
\* second active poll timer.
C25_AtMostOnePolling == Cardinality(Polling) <= 1

\* attempt i is over: its interval is cleared and its timeout has fired or
\* is void, the guide is hidden and the status is not 'Calibrating...'
Ended(i) ==
  /\ Len(timers) >= i
  /\ ~timers[i].interval
  /\ timers[i].succeeded \/ timers[i].timedOut
  /\ app.guideHidden
  /\ app.status # "Calibrating..."

C27_RunningMeansDetectingWithModel ==
  app.isRunning => (PoseDetection.isRunning /\ ModelLoader.currentModel # "null")

\* C28: the scene holds at most one garment model, and the model it holds is
\* ModelLoader.currentModel, however load requests overlap.
C28_SceneHoldsCurrentModelOnly ==
  /\ Cardinality(SceneManager.children) <= 1
  /\ SceneManager.children \subseteq {ModelLoader.currentModel}

\* C29: a model change that fails leaves the session as it was: the model
\* shown before the change, if there was one, is still in the scene.
C29_FailedChangeKeepsModel ==
  (/\ last.op = "loadModel" /\ last.then = "select" /\ ~last.ret
   /\ ModelLoader.currentModel # "null") =>
     ModelLoader.currentModel \in SceneManager.children

\* C30: the sizeAdjustment onPoseDetected hands to updateModelFit is the
\* value Customization accepted and clamped for the current model
\* (model.userData.sizeAdjustment), a value in [0.5, 2.0].
C30_SolverGetsAcceptedSize ==
  (last.op = "onPoseDetected" /\ last.fit.ran) =>
     /\ app.sizeSlider = appearance[ModelLoader.currentModel].sizeAdjustment
     /\ app.sizeSlider >= Unit \div 2
     /\ app.sizeSlider <= 2 * Unit

====
